---- MODULE Spec2Model ----
(***************************************************************************)
(* Model of tailwind-rn (src/index.js): create(tailwindStyles) returns the *)
(* pair {tailwind, getColor} sharing one cache.  JavaScript strings are    *)
(* modelled as sequences of one-character strings so that slice, includes, *)
(* startsWith, split, join, sort and the regular expressions are computed  *)
(* character by character as the code computes them.  JavaScript numbers   *)
(* are modelled in thousandths (0.5 is 500, 18 is 18000).                  *)
(***************************************************************************)
EXTENDS Integers, Sequences, FiniteSets, TLC

VARIABLES cache, built, returned, calls, call, result, warned, locals

vars == <<cache, built, returned, calls, call, result, warned, locals>>

(* ------------------------- bounds of the model ------------------------- *)
MaxCalls == 3
MaxTokens == 3

(* --------------------------- JavaScript values ------------------------- *)
Num(n) == [t |-> "num", v |-> n]
Str(s) == [t |-> "str", v |-> s]
Arr(a) == [t |-> "arr", v |-> a]
NaN == [t |-> "nan", v |-> 0]
Undefined == [t |-> "undef", v |-> 0]
NULL == [t |-> "null", v |-> 0]

Milli == 1000

\* !x for the values a width can take: null, undefined, 0 and NaN are falsy
Falsy(x) == x.t \in {"null", "undef", "nan"} \/ (x.t = "num" /\ x.v = 0)

(* ------------------------- characters and strings ---------------------- *)
\* the characters in use, in increasing UTF-16 code unit order
CharOrder == <<"\t", " ", "(", ")", ",", "-", ".", "0", "1", "2", "3", "4", "5", "6", "7", "8", "9", ":", "a", "b", "c", "d", "e", "f", "g", "h", "i", "j", "k", "l", "m", "n", "o", "p", "q", "r", "s", "t", "u", "v", "w", "x", "y", "z">>

Chars == {CharOrder[i] : i \in DOMAIN CharOrder}

Code == [c \in Chars |-> CHOOSE i \in DOMAIN CharOrder : CharOrder[i] = c]

Lower == {"a", "b", "c", "d", "e", "f", "g", "h", "i", "j", "k", "l", "m", "n", "o", "p", "q", "r", "s", "t", "u", "v", "w", "x", "y", "z"}

Upper == {"A", "B", "C", "D", "E", "F", "G", "H", "I", "J", "K", "L", "M", "N", "O", "P", "Q", "R", "S", "T", "U", "V", "W", "X", "Y", "Z"}

Digits == <<"0", "1", "2", "3", "4", "5", "6", "7", "8", "9">>

Whitespace == {" ", "\t"}

Min(a, b) == IF a < b THEN a ELSE b

\* s.startsWith(p) at 1-based position i
startsWithAt(s, p, i) == i + Len(p) - 1 <= Len(s) /\ SubSeq(s, i, i + Len(p) - 1) = p

startsWith(s, p) == startsWithAt(s, p, 1)

\* s.includes(p)
includes(s, p) == \E i \in 1..(Len(s) + 1) : startsWithAt(s, p, i)

\* s.slice(0, n) and s.slice(n)
sliceTo(s, n) == SubSeq(s, 1, Min(n, Len(s)))
sliceFrom(s, n) == SubSeq(s, n + 1, Len(s))

\* a < b in the default comparison of Array.prototype.sort (code units)
RECURSIVE StrLessFrom(_, _, _)
StrLessFrom(a, b, i) ==
  IF i > Len(a) THEN i <= Len(b)
  ELSE IF i > Len(b) THEN FALSE
  ELSE IF a[i] = b[i] THEN StrLessFrom(a, b, i + 1)
  ELSE Code[a[i]] < Code[b[i]]

StrLess(a, b) == StrLessFrom(a, b, 1)

RECURSIVE InsertSorted(_, _)
InsertSorted(x, list) ==
  IF list = <<>> THEN <<x>>
  ELSE IF StrLess(x, Head(list)) THEN <<x>> \o list
  ELSE <<Head(list)>> \o InsertSorted(x, Tail(list))

RECURSIVE sortFrom(_, _)
sortFrom(list, i) == IF i = 0 THEN <<>> ELSE InsertSorted(list[i], sortFrom(list, i - 1))

\* a sort that leaves the array in the order given
sortKeepsOrder(list) == list

\* array.sort() without a comparator
sort(list) == sortFrom(list, Len(list))

\* s.replace(/\s+/g, ' ')
RECURSIVE collapseWhitespace(_)
collapseWhitespace(s) ==
  IF s = <<>> THEN <<>>
  ELSE IF Head(s) \in Whitespace
       THEN IF Len(s) > 1 /\ s[2] \in Whitespace
            THEN collapseWhitespace(Tail(s))
            ELSE <<" ">> \o collapseWhitespace(Tail(s))
       ELSE <<Head(s)>> \o collapseWhitespace(Tail(s))

\* s.trim()
RECURSIVE trimStart(_)
trimStart(s) == IF s # <<>> /\ Head(s) \in Whitespace THEN trimStart(Tail(s)) ELSE s

RECURSIVE trimEnd(_)
trimEnd(s) == IF s # <<>> /\ s[Len(s)] \in Whitespace THEN trimEnd(SubSeq(s, 1, Len(s) - 1)) ELSE s

trim(s) == trimEnd(trimStart(s))

\* s.split(' '): the empty string splits into one empty token
RECURSIVE splitFrom(_, _, _)
splitFrom(s, i, cur) ==
  IF i > Len(s) THEN <<cur>>
  ELSE IF s[i] = " " THEN <<cur>> \o splitFrom(s, i + 1, <<>>)
  ELSE splitFrom(s, i + 1, Append(cur, s[i]))

split(s) == splitFrom(s, 1, <<>>)

\* array.join(' ')
RECURSIVE join(_)
join(list) ==
  IF list = <<>> THEN <<>>
  ELSE IF Len(list) = 1 THEN list[1]
  ELSE list[1] \o <<" ">> \o join(Tail(list))

\* the length of the longest run of characters of class at position i
RECURSIVE runLength(_, _, _)
runLength(s, i, class) ==
  IF i <= Len(s) /\ s[i] \in class THEN 1 + runLength(s, i + 1, class) ELSE 0

SetMin(S) == CHOOSE x \in S : \A y \in S : x <= y

(* ------------------------------- numbers ------------------------------- *)
DigitSet == {Digits[i] : i \in DOMAIN Digits}

DigitVal(c) == (CHOOSE i \in DOMAIN Digits : Digits[i] = c) - 1

RECURSIVE digitsValue(_, _, _)
digitsValue(s, i, n) ==
  IF n = 0 THEN 0 ELSE digitsValue(s, i, n - 1) * 10 + DigitVal(s[i + n - 1])

\* Number.parseFloat(x): optional sign, digits, optional fraction; the rest
\* of the string is ignored; NaN when there is no digit
parseFloat(x) ==
  IF x.t = "num" THEN x
  ELSE IF x.t # "str" THEN NaN
  ELSE LET s == trimStart(x.v)
           neg == s # <<>> /\ s[1] = "-"
           p == IF s # <<>> /\ s[1] \in {"-", "+"} THEN 2 ELSE 1
           ni == runLength(s, p, DigitSet)
           hasDot == p + ni <= Len(s) /\ s[p + ni] = "."
           nf == IF hasDot THEN runLength(s, p + ni + 1, DigitSet) ELSE 0
           frac(k) == IF nf >= k THEN DigitVal(s[p + ni + k]) ELSE 0
           abs == digitsValue(s, p, ni) * Milli + frac(1) * 100 + frac(2) * 10 + frac(3)
       IN IF ni = 0 /\ nf = 0 THEN NaN
          ELSE Num(IF neg THEN 0 - abs ELSE abs)

\* a * b on numbers; NaN when an operand is undefined or NaN
times(a, b) ==
  IF a.t = "num" /\ b.t = "num"
  THEN LET prod == a.v * b.v
       IN Num(IF prod < 0 THEN 0 - ((0 - prod) \div Milli) ELSE prod \div Milli)
  ELSE NaN

RECURSIVE intToString(_)
intToString(n) ==
  IF n < 10 THEN <<Digits[n + 1]>>
  ELSE intToString(n \div 10) \o <<Digits[(n % 10) + 1]>>

\* String(x), the conversion applied to what a replacer function returns
toString(x) ==
  IF x.t = "str" THEN x.v
  ELSE IF x.t = "undef" THEN <<"u", "n", "d", "e", "f", "i", "n", "e", "d">>
  ELSE IF x.t = "null" THEN <<"n", "u", "l", "l">>
  ELSE IF x.t = "nan" THEN <<"N", "a", "N">>
  ELSE IF x.t = "arr" THEN join(x.v)
  ELSE LET abs == IF x.v < 0 THEN 0 - x.v ELSE x.v
           f == abs % Milli
           d1 == f \div 100
           d2 == (f \div 10) % 10
           d3 == f % 10
           fracDigits == IF d3 # 0 THEN <<Digits[d1 + 1], Digits[d2 + 1], Digits[d3 + 1]>>
                         ELSE IF d2 # 0 THEN <<Digits[d1 + 1], Digits[d2 + 1]>>
                         ELSE <<Digits[d1 + 1]>>
       IN (IF x.v < 0 THEN <<"-">> ELSE <<>>)
          \o intToString(abs \div Milli)
          \o (IF f = 0 THEN <<>> ELSE <<".">> \o fracDigits)

(* ------------------------------- objects ------------------------------- *)
\* an object is a function from property names to values; {} is <<>>
EmptyObject == <<>>

\* object[name]
get(object, name) == IF name \in DOMAIN object THEN object[name] ELSE Undefined

\* Object.assign(target, source)
assign(target, source) == source @@ target

(* --------------------------- the lookup table -------------------------- *)
fontSize == <<"f", "o", "n", "t", "S", "i", "z", "e">>
lineHeight == <<"l", "i", "n", "e", "H", "e", "i", "g", "h", "t">>
letterSpacing == <<"l", "e", "t", "t", "e", "r", "S", "p", "a", "c", "i", "n", "g">>
fontVariant == <<"f", "o", "n", "t", "V", "a", "r", "i", "a", "n", "t">>
backgroundColor == <<"b", "a", "c", "k", "g", "r", "o", "u", "n", "d", "C", "o", "l", "o", "r">>
bgOpacity == <<"-", "-", "b", "g", "-", "o", "p", "a", "c", "i", "t", "y">>

\* the fragments of styles.json that the model passes to create()
tailwindStyles ==
  (<<"t", "e", "x", "t", "-", "l", "g">> :> (fontSize :> Num(18 * Milli) @@ lineHeight :> Num(28 * Milli)))
  @@ (<<"t", "e", "x", "t", "-", "x", "l">> :> (fontSize :> Num(20 * Milli) @@ lineHeight :> Num(28 * Milli)))
  @@ (<<"l", "e", "a", "d", "i", "n", "g", "-", "6">> :> (lineHeight :> Num(24 * Milli)))
  @@ (<<"l", "e", "a", "d", "i", "n", "g", "-", "8">> :> (lineHeight :> Num(32 * Milli)))
  @@ (<<"t", "r", "a", "c", "k", "i", "n", "g", "-", "w", "i", "d", "e">> :> (letterSpacing :> Str(<<"0", ".", "0", "2", "5", "e", "m">>)))
  @@ (<<"t", "r", "a", "c", "k", "i", "n", "g", "-", "t", "i", "g", "h", "t", "e", "r">> :> (letterSpacing :> Str(<<"-", "0", ".", "0", "5", "e", "m">>)))
  @@ (<<"b", "g", "-", "b", "l", "a", "c", "k">> :> (bgOpacity :> Num(1 * Milli) @@ backgroundColor :> Str(<<"r", "g", "b", "a", "(", "0", ",", " ", "0", ",", " ", "0", ",", " ", "v", "a", "r", "(", "-", "-", "b", "g", "-", "o", "p", "a", "c", "i", "t", "y", ")", ")">>)))
  @@ (<<"b", "g", "-", "b", "l", "u", "e", "-", "5", "0", "0">> :> (bgOpacity :> Num(1 * Milli) @@ backgroundColor :> Str(<<"r", "g", "b", "a", "(", "6", "6", ",", " ", "1", "5", "3", ",", " ", "2", "2", "5", ",", " ", "v", "a", "r", "(", "-", "-", "b", "g", "-", "o", "p", "a", "c", "i", "t", "y", ")", ")">>)))
  @@ (<<"b", "g", "-", "r", "e", "d", "-", "5", "0", "0">> :> (bgOpacity :> Num(1 * Milli) @@ backgroundColor :> Str(<<"r", "g", "b", "a", "(", "2", "4", "5", ",", " ", "1", "0", "1", ",", " ", "1", "0", "1", ",", " ", "v", "a", "r", "(", "-", "-", "b", "g", "-", "o", "p", "a", "c", "i", "t", "y", ")", ")">>)))
  @@ (<<"b", "g", "-", "o", "p", "a", "c", "i", "t", "y", "-", "5", "0">> :> (bgOpacity :> Num(500)))

(* ----------------------------- useVariables ---------------------------- *)
NameChars == Lower \cup Upper \cup {"-"}

\* value.replace(/var\(([a-zA-Z-]+)\)/, (_, name) => object[name]):
\* the first match only
replaceVar(s, object) ==
  LET nameLen(i) == runLength(s, i + 4, NameChars)
      matches == {i \in 1..Len(s) :
                    /\ startsWithAt(s, <<"v", "a", "r", "(">>, i)
                    /\ nameLen(i) >= 1
                    /\ startsWithAt(s, <<")">>, i + 4 + nameLen(i))}
  IN IF matches = {} THEN s
     ELSE LET i == SetMin(matches)
              name == SubSeq(s, i + 4, i + 3 + nameLen(i))
          IN SubSeq(s, 1, i - 1) \o toString(get(object, name)) \o SubSeq(s, i + 5 + nameLen(i), Len(s))

useVariables(object) ==
  [key \in {k \in DOMAIN object : ~startsWith(k, <<"-", "-">>)} |->
     IF object[key].t = "str" THEN Str(replaceVar(object[key].v, object)) ELSE object[key]]

(* ----------------------------- addFontVariant -------------------------- *)
FONT_VARIANT_REGEX == <<<<"o", "l", "d", "s", "t", "y", "l", "e", "-", "n", "u", "m", "s">>, <<"l", "i", "n", "i", "n", "g", "-", "n", "u", "m", "s">>, <<"t", "a", "b", "u", "l", "a", "r", "-", "n", "u", "m", "s">>, <<"p", "r", "o", "p", "o", "r", "t", "i", "o", "n", "a", "l", "-", "n", "u", "m", "s">>>>

FontVariantNames == {FONT_VARIANT_REGEX[i] : i \in DOMAIN FONT_VARIANT_REGEX}

\* matchAll(classNames, FONT_VARIANT_REGEX).toArray(): every non-overlapping
\* match, from left to right
RECURSIVE matchAllFrom(_, _)
matchAllFrom(s, i) ==
  IF i > Len(s) THEN <<>>
  ELSE LET alts == {a \in DOMAIN FONT_VARIANT_REGEX : startsWithAt(s, FONT_VARIANT_REGEX[a], i)}
       IN IF alts = {} THEN matchAllFrom(s, i + 1)
          ELSE LET m == FONT_VARIANT_REGEX[SetMin(alts)]
               IN <<m>> \o matchAllFrom(s, i + Len(m))

matchAll(s) == matchAllFrom(s, 1)

\* a variant that records the first match only
addFontVariantFirstOnly(style, classNames) ==
  LET matches == matchAll(classNames)
  IN IF Len(matches) > 0 THEN assign(style, fontVariant :> Arr(<<matches[1]>>)) ELSE style

addFontVariant(style, classNames) ==
  LET matches == matchAll(classNames)
  IN IF Len(matches) > 0 THEN assign(style, fontVariant :> Arr(matches)) ELSE style

(* ---------------------------- addLetterSpacing ------------------------- *)
FONT_SIZE_ALTERNATIVES == <<<<"x", "s">>, <<"s", "m">>, <<"b", "a", "s", "e">>, <<"l", "g">>, <<"x", "l">>, <<"2", "x", "l">>, <<"3", "x", "l">>, <<"4", "x", "l">>, <<"5", "x", "l">>, <<"6", "x", "l">>>>

\* FONT_SIZE_REGEX.exec(classNames): the leftmost match, <<>> for null
FONT_SIZE_REGEX(s) ==
  LET alt(i) == {a \in DOMAIN FONT_SIZE_ALTERNATIVES :
                   startsWithAt(s, <<"t", "e", "x", "t", "-">> \o FONT_SIZE_ALTERNATIVES[a], i)}
      matches == {i \in 1..Len(s) : alt(i) # {}}
  IN IF matches = {} THEN <<>>
     ELSE <<<<"t", "e", "x", "t", "-">> \o FONT_SIZE_ALTERNATIVES[SetMin(alt(SetMin(matches)))]>>

\* LETTER_SPACING_REGEX.exec(classNames): the leftmost match of
\* tracking-[a-z]+, <<>> for null
LETTER_SPACING_REGEX(s) ==
  LET matches == {i \in 1..Len(s) :
                    startsWithAt(s, <<"t", "r", "a", "c", "k", "i", "n", "g", "-">>, i) /\ runLength(s, i + 9, Lower) >= 1}
  IN IF matches = {} THEN <<>>
     ELSE LET i == SetMin(matches)
          IN <<SubSeq(s, i, i + 8 + runLength(s, i + 9, Lower))>>

\* a variant that returns silently when the font size is missing
addLetterSpacingUnchecked(styles, style, classNames) ==
  LET letterSpacingMatches == LETTER_SPACING_REGEX(classNames)
      fontSizeMatches == FONT_SIZE_REGEX(classNames)
  IN IF letterSpacingMatches = <<>> \/ fontSizeMatches = <<>> THEN [error |-> "", style |-> style]
     ELSE IF letterSpacingMatches[1] \notin DOMAIN styles \/ fontSizeMatches[1] \notin DOMAIN styles
          THEN [error |-> "TypeError", style |-> style]
     ELSE [error |-> "",
           style |-> assign(style, letterSpacing :>
                       times(parseFloat(get(styles[letterSpacingMatches[1]], letterSpacing)),
                             get(styles[fontSizeMatches[1]], fontSize)))]

\* the result is [error |-> "" or the error thrown, style |-> the style]
addLetterSpacing(styles, style, classNames) ==
  LET letterSpacingMatches == LETTER_SPACING_REGEX(classNames)
      fontSizeMatches == FONT_SIZE_REGEX(classNames)
  IN IF letterSpacingMatches = <<>> THEN [error |-> "", style |-> style]
     ELSE IF fontSizeMatches = <<>> THEN [error |-> "FontSizeRequired", style |-> style]
     ELSE IF letterSpacingMatches[1] \notin DOMAIN styles \/ fontSizeMatches[1] \notin DOMAIN styles
          THEN [error |-> "TypeError", style |-> style]
     ELSE [error |-> "",
           style |-> assign(style, letterSpacing :>
                       times(parseFloat(get(styles[letterSpacingMatches[1]], letterSpacing)),
                             get(styles[fontSizeMatches[1]], fontSize)))]

(* --------------------------- putLeadingToTheBack ----------------------- *)
\* a variant that leaves the leading-x names where the sort put them
putLeadingNowhere(classNames, maxWidthKey) == classNames

putLeadingToTheBack(classNames, maxWidthKey) ==
  LET isLeading(name) == startsWith(name, maxWidthKey \o <<"l", "e", "a", "d", "i", "n", "g", "-">>)
      isOther(name) == ~isLeading(name)
  IN SelectSeq(classNames, isOther) \o SelectSeq(classNames, isLeading)

(* -------------------------------- tailwind ----------------------------- *)
maxWidthKeys == <<<<"s", "m", ":">>, <<"m", "d", ":">>, <<"l", "g", ":">>, <<"x", "l", ":">>>>

maxWidthValues == <<640, 768, 1024, 1280>>

\* maxWidthKeys.includes(pre)
isMaxWidthKey(pre) == \E j \in DOMAIN maxWidthKeys : maxWidthKeys[j] = pre

\* maxWidthKeys.some(k => classNames.includes(k))
haveMaxWidthKeys(classNames) == \E j \in DOMAIN maxWidthKeys : includes(classNames, maxWidthKeys[j])

\* a variant with windowWidth > maxWidth
atLeastStrict(windowWidth, maxWidth) == windowWidth.t = "num" /\ windowWidth.v > maxWidth * Milli

\* windowWidth >= maxWidth
atLeast(windowWidth, maxWidth) == windowWidth.t = "num" /\ windowWidth.v >= maxWidth * Milli

\* i: the number of thresholds that windowWidth reaches
activeCount(windowWidth) ==
  Cardinality({j \in DOMAIN maxWidthValues : atLeast(windowWidth, maxWidthValues[j])})

\* classNames.filter(c => c.slice(0, 3) === maxWidthKeys[j]).sort(), and
\* for j = 0 the class names without a key
bucket(classNames, j) ==
  LET noKey(c) == ~isMaxWidthKey(sliceTo(c, 3))
      hasKey(c) == sliceTo(c, 3) = maxWidthKeys[j]
  IN IF j = 0 THEN sort(SelectSeq(classNames, noKey)) ELSE sort(SelectSeq(classNames, hasKey))

sortClassNames(classNames) ==
  putLeadingToTheBack(bucket(classNames, 0), <<>>)
  \o putLeadingToTheBack(bucket(classNames, 1), maxWidthKeys[1])
  \o putLeadingToTheBack(bucket(classNames, 2), maxWidthKeys[2])
  \o putLeadingToTheBack(bucket(classNames, 3), maxWidthKeys[3])
  \o putLeadingToTheBack(bucket(classNames, 4), maxWidthKeys[4])

\* filter out class names based on windowWidth
filterByWidth(classNames, windowWidth) ==
  LET i == activeCount(windowWidth)
      keep(className) ==
        LET pre == sliceTo(className, 3)
        IN ~isMaxWidthKey(pre) \/ (\E j \in 1..i : maxWidthKeys[j] = pre)
  IN SelectSeq(classNames, keep)

\* remove maxWidthKeys
removeKey(className) ==
  IF isMaxWidthKey(sliceTo(className, 3)) THEN sliceFrom(className, 3) ELSE className

removeKeys(classNames) == [k \in DOMAIN classNames |-> removeKey(classNames[k])]

\* a variant that never finds the key
cacheHitNever(c, classNames) == FALSE

\* classNames in cache
cacheHit(c, classNames) == classNames \in DOMAIN c

\* the class names that are looked up one by one
separate(classNames) ==
  LET notTracking(className) == ~startsWith(className, <<"t", "r", "a", "c", "k", "i", "n", "g", "-">>)
      notFontVariant(className) == className \notin FontVariantNames
  IN SelectSeq(SelectSeq(split(trim(collapseWhitespace(classNames))), notTracking), notFontVariant)

\* for (const className of separateClassNames) { Object.assign / console.warn }
RECURSIVE merge(_, _, _)
merge(styles, style, names) ==
  IF names = <<>> THEN style
  ELSE merge(styles,
             IF Head(names) \in DOMAIN styles THEN assign(style, styles[Head(names)]) ELSE style,
             Tail(names))

warnings(styles, names) ==
  LET unsupported(className) == className \notin DOMAIN styles
  IN SelectSeq(names, unsupported)

NoLocals == [sorted |-> <<>>, filtered |-> <<>>, classNames |-> <<>>, key |-> <<>>,
             separateClassNames |-> <<>>, style |-> EmptyObject, hit |-> FALSE]

Returns(c, b, entry, loc) ==
  [outcome |-> "return", error |-> "", value |-> entry.style, ref |-> entry.ref,
   cache |-> c, built |-> b, warned |-> <<>>, locals |-> loc]

Throws(c, b, error, loc) ==
  [outcome |-> "throw", error |-> error, value |-> EmptyObject, ref |-> <<>>,
   cache |-> c, built |-> b, warned |-> <<>>, locals |-> loc]

\* one call of tailwind(classNames, windowWidth) on the cache c; b counts
\* the objects created per key, which gives every object its identity
tailwind(c, b, classNames, windowWidth) ==
  IF classNames = <<>> THEN Returns(c, b, c[<<>>], NoLocals)
  ELSE IF haveMaxWidthKeys(classNames) /\ Falsy(windowWidth)
  THEN Throws(c, b, "NoWindowWidth", NoLocals)
  ELSE
    LET have == haveMaxWidthKeys(classNames)
        sorted == sortClassNames(split(trim(collapseWhitespace(classNames))))
        filtered == IF have THEN filterByWidth(sorted, windowWidth) ELSE sorted
        names == IF have THEN removeKeys(filtered) ELSE filtered
        key == join(names)
        loc == [sorted |-> sorted, filtered |-> filtered, classNames |-> names, key |-> key,
                separateClassNames |-> <<>>, style |-> EmptyObject, hit |-> FALSE]
    IN IF key = <<>> THEN Returns(c, b, c[<<>>], loc)
       ELSE IF cacheHit(c, key) THEN Returns(c, b, c[key], [loc EXCEPT !.hit = TRUE])
       ELSE
         LET spaced == addLetterSpacing(tailwindStyles, addFontVariant(EmptyObject, key), key)
             separateClassNames == separate(key)
             style == merge(tailwindStyles, spaced.style, separateClassNames)
             gen == (IF key \in DOMAIN b THEN b[key] ELSE 0) + 1
             entry == [ref |-> <<key, gen>>, style |-> useVariables(style)]
         IN IF spaced.error # "" THEN Throws(c, b, spaced.error, loc)
            ELSE [outcome |-> "return", error |-> "", value |-> entry.style, ref |-> entry.ref,
                  cache |-> (key :> entry) @@ c,
                  built |-> (key :> gen) @@ b,
                  warned |-> warnings(tailwindStyles, separateClassNames),
                  locals |-> [loc EXCEPT !.separateClassNames = separateClassNames, !.style = style]]

(* -------------------------------- getColor ----------------------------- *)
\* name.split(' ').map(className => `bg-${className}`).join(' ')
bgClassNames(name) ==
  LET parts == split(name)
  IN join([k \in DOMAIN parts |-> <<"b", "g", "-">> \o parts[k]])

(* ------------------------------ the inputs ----------------------------- *)
W(n) == Num(n * Milli)

TokenSeqs(T, n) == UNION {[1..k -> T] : k \in 0..n}

\* the calls of the specification with several calls on one instance
SeqInputs ==
  {<<>>,
   <<"f", "o", "o">>,
   <<"f", "o", "o", " ", "m", "d", ":", "t", "e", "x", "t", "-", "x", "l">>,
   <<"t", "r", "a", "c", "k", "i", "n", "g", "-", "w", "i", "d", "e">>,
   <<"t", "r", "a", "c", "k", "i", "n", "g", "-", "w", "i", "d", "e", " ", "m", "d", ":", "t", "e", "x", "t", "-", "x", "l">>,
   <<"m", "d", ":", "t", "e", "x", "t", "-", "x", "l", " ", "t", "r", "a", "c", "k", "i", "n", "g", "-", "w", "i", "d", "e">>,
   <<"h", "o", "v", "e", "r", ":", "t", "r", "a", "c", "k", "i", "n", "g", "-", "w", "i", "d", "e">>}
SeqWidths == {NULL, W(700), W(800)}
SeqColors == {<<"b", "l", "a", "c", "k">>, <<"b", "l", "a", "c", "k", " ", "o", "p", "a", "c", "i", "t", "y", "-", "5", "0">>}

\* the widths of the specifications with one call on a fresh instance
Widths == {NULL, W(0), W(700), W(768), W(1280)}

\* the inputs of the calls about breakpoints, order and colors
LayoutTokens ==
  {<<"t", "e", "x", "t", "-", "l", "g">>, <<"m", "d", ":", "t", "e", "x", "t", "-", "x", "l">>, <<"l", "e", "a", "d", "i", "n", "g", "-", "6">>, <<"m", "d", ":", "l", "e", "a", "d", "i", "n", "g", "-", "8">>,
   <<"b", "g", "-", "r", "e", "d", "-", "5", "0", "0">>, <<"b", "g", "-", "b", "l", "u", "e", "-", "5", "0", "0">>, <<"s", "m", ":", "b", "g", "-", "b", "l", "u", "e", "-", "5", "0", "0">>, <<"x", "l", ":", "b", "g", "-", "r", "e", "d", "-", "5", "0", "0">>,
   <<"h", "o", "v", "e", "r", ":", "s", "m", ":", "p", "-", "1">>}
Spaced ==
  {<<" ", " ", " ">>,
   <<" ">> \o <<"l", "e", "a", "d", "i", "n", "g", "-", "6">> \o <<" ", "\t">> \o <<"t", "e", "x", "t", "-", "l", "g">> \o <<" ">>}
LayoutInputs == {join(ts) : ts \in TokenSeqs(LayoutTokens, MaxTokens)} \cup Spaced
ColorTerms == {<<"b", "l", "a", "c", "k">>, <<"r", "e", "d", "-", "5", "0", "0">>, <<"o", "p", "a", "c", "i", "t", "y", "-", "5", "0">>}
Colors == {join(ts) : ts \in TokenSeqs(ColorTerms, 2)}

\* the inputs of the calls about font variants and letter spacing
TextTokens ==
  {<<"t", "e", "x", "t", "-", "l", "g">>, <<"m", "d", ":", "t", "e", "x", "t", "-", "x", "l">>, <<"t", "r", "a", "c", "k", "i", "n", "g", "-", "w", "i", "d", "e">>, <<"s", "m", ":", "t", "r", "a", "c", "k", "i", "n", "g", "-", "t", "i", "g", "h", "t", "e", "r">>,
   <<"t", "r", "a", "c", "k", "i", "n", "g", "-", "f", "o", "o">>, <<"t", "a", "b", "u", "l", "a", "r", "-", "n", "u", "m", "s">>, <<"o", "l", "d", "s", "t", "y", "l", "e", "-", "n", "u", "m", "s">>, <<"x", "l", ":", "l", "i", "n", "i", "n", "g", "-", "n", "u", "m", "s">>,
   <<"h", "o", "v", "e", "r", ":", "t", "r", "a", "c", "k", "i", "n", "g", "-", "w", "i", "d", "e">>, <<"h", "o", "v", "e", "r", ":", "t", "a", "b", "u", "l", "a", "r", "-", "n", "u", "m", "s">>}
TextInputs == {join(ts) : ts \in TokenSeqs(TextTokens, MaxTokens)}

(* --------------------------- the state machine ------------------------- *)
\* create(tailwindStyles): the cache holds the empty style for ''
Init ==
  /\ cache = (<<>> :> [ref |-> <<<<>>, 1>>, style |-> EmptyObject])
  /\ built = (<<>> :> 1)
  /\ returned = <<>>
  /\ calls = 0
  /\ call = [op |-> "create", name |-> <<>>, classNames |-> <<>>, windowWidth |-> NULL]
  /\ result = [outcome |-> "none", error |-> "", value |-> EmptyObject, ref |-> <<>>, color |-> Undefined]
  /\ warned = <<>>
  /\ locals = NoLocals

\* returned records, per argument pair, the object returned by the calls that
\* returned normally and how many there were
timesReturned(classNames, windowWidth) ==
  IF <<classNames, windowWidth>> \in DOMAIN returned
  THEN returned[<<classNames, windowWidth>>].times ELSE 0

Apply(op, name, classNames, windowWidth, r) ==
  /\ cache' = r.cache
  /\ built' = r.built
  /\ returned' = IF r.outcome = "return"
                 THEN (<<classNames, windowWidth>> :>
                         [ref |-> r.ref, times |-> timesReturned(classNames, windowWidth) + 1]) @@ returned
                 ELSE returned
  /\ calls' = calls + 1
  /\ call' = [op |-> op, name |-> name, classNames |-> classNames, windowWidth |-> windowWidth]
  /\ result' = [outcome |-> r.outcome, error |-> r.error, value |-> r.value, ref |-> r.ref,
                color |-> IF op = "getColor" /\ r.outcome = "return"
                          THEN get(r.value, backgroundColor) ELSE Undefined]
  /\ warned' = r.warned
  /\ locals' = r.locals

Tailwind(classNames, windowWidth) ==
  /\ calls < MaxCalls
  /\ Apply("tailwind", <<>>, classNames, windowWidth, tailwind(cache, built, classNames, windowWidth))

GetColor(name) ==
  /\ calls < MaxCalls
  /\ Apply("getColor", name, bgClassNames(name), NULL, tailwind(cache, built, bgClassNames(name), NULL))

Next ==
  \/ \E classNames \in SeqInputs, windowWidth \in SeqWidths : Tailwind(classNames, windowWidth)
  \/ \E name \in SeqColors : GetColor(name)

Spec == Init /\ [][Next]_vars

\* one call on a fresh instance, over the inputs about breakpoints, order
\* and colors
TailwindLayout ==
  /\ calls = 0
  /\ \E classNames \in LayoutInputs, windowWidth \in Widths : Tailwind(classNames, windowWidth)

GetColorOnce ==
  /\ calls = 0
  /\ \E name \in Colors : GetColor(name)

NextLayout == TailwindLayout \/ GetColorOnce

SpecLayout == Init /\ [][NextLayout]_vars

\* one call on a fresh instance, over the inputs about font variants and
\* letter spacing
TailwindText ==
  /\ calls = 0
  /\ \E classNames \in TextInputs, windowWidth \in Widths : Tailwind(classNames, windowWidth)

NextText == TailwindText

SpecText == Init /\ [][NextText]_vars

(* ------------------------- notions used by the claims ------------------ *)
\* the whitespace-delimited tokens of a string
TokensOf(s) == split(trim(collapseWhitespace(s)))

\* the breakpoint tiers as (tag, minimum width) pairs, smallest first
Tiers == <<[tag |-> <<"s", "m", ":">>, min |-> 640], [tag |-> <<"m", "d", ":">>, min |-> 768],
           [tag |-> <<"l", "g", ":">>, min |-> 1024], [tag |-> <<"x", "l", ":">>, min |-> 1280]>>

\* the 0-based tier index of a token, -1 for an untagged token
TierIndex(token) ==
  IF \E j \in DOMAIN Tiers : startsWith(token, Tiers[j].tag)
  THEN (CHOOSE j \in DOMAIN Tiers : startsWith(token, Tiers[j].tag)) - 1
  ELSE 0 - 1

Untagged(token) == TierIndex(token) = 0 - 1

Stripped(token) == IF Untagged(token) THEN token ELSE SubSeq(token, 4, Len(token))

ActiveTierCount(w) == Cardinality({j \in DOMAIN Tiers : Tiers[j].min * Milli <= w.v})

Count(x, list) == Cardinality({i \in DOMAIN list : list[i] = x})

Range(list) == {list[i] : i \in DOMAIN list}

TextSizeTokens == {<<"t", "e", "x", "t", "-">> \o FONT_SIZE_ALTERNATIVES[a] : a \in DOMAIN FONT_SIZE_ALTERNATIVES}

IsTracking(token) == startsWith(token, <<"t", "r", "a", "c", "k", "i", "n", "g", "-">>)

IsLeading(token) == startsWith(Stripped(token), <<"l", "e", "a", "d", "i", "n", "g", "-">>)

Called == call.op \in {"tailwind", "getColor"}

Returned == Called /\ result.outcome = "return"

Threw(error) == Called /\ result.outcome = "throw" /\ result.error = error

(* --------------------------------- C1 ---------------------------------- *)
\* C1: once tailwind(s, w) has returned normally, every later call with the
\* same arguments returns the very same object and warns about nothing,
\* whatever was called in between; a call warns only when it misses the cache.
C1_RepeatedCallReturnsCachedObject ==
  [][/\ <<call'.classNames, call'.windowWidth>> \in DOMAIN returned
          => /\ result'.outcome = "return"
             /\ result'.ref = returned[<<call'.classNames, call'.windowWidth>>].ref
             /\ warned' = <<>>
     /\ warned' # <<>> => locals'.key \notin DOMAIN cache]_vars

\* a third call repeats an earlier one that warned, after a different call
C1_Witness ==
  /\ calls = 3
  /\ Returned
  /\ locals.hit
  /\ returned[<<call.classNames, call.windowWidth>>].times = 2
  /\ Cardinality(DOMAIN returned) = 2
  /\ \E token \in Range(locals.classNames) : token \notin DOMAIN tailwindStyles

(* --------------------------------- C2 ---------------------------------- *)
\* C2: the call throws the missing-width error exactly when the width is
\* falsy and some token of the string begins with sm:, md:, lg: or xl:, and
\* it throws before the cache is read or written.
C2_MissingWidthIffTaggedToken ==
  Called =>
    /\ Threw("NoWindowWidth") <=>
         /\ Falsy(call.windowWidth)
         /\ call.classNames # <<>>
         /\ \E token \in Range(TokensOf(call.classNames)) : ~Untagged(token)
    /\ Threw("NoWindowWidth") => locals = NoLocals /\ cache = (<<>> :> [ref |-> <<<<>>, 1>>, style |-> EmptyObject])

(* --------------------------------- C3 ---------------------------------- *)
\* C3: with a truthy width the token sequence handed to the merge step holds
\* every untagged input token, a tagged input token (its tag stripped) exactly
\* when its tier index is below the number of tiers whose threshold is at most
\* the width, and nothing else.
C3_BreakpointGating ==
  (Called /\ ~Falsy(call.windowWidth) /\ call.classNames # <<>>) =>
    LET input == TokensOf(call.classNames)
        kept(token) == Untagged(token) \/ TierIndex(token) < ActiveTierCount(call.windowWidth)
        expected(x) == Cardinality({i \in DOMAIN input : kept(input[i]) /\ Stripped(input[i]) = x})
    IN \A x \in Range(locals.classNames) \cup {Stripped(input[i]) : i \in DOMAIN input} :
         Count(x, locals.classNames) = expected(x)

\* a call at width 768 that keeps an md: token and drops an xl: token
C3_Witness ==
  /\ Returned
  /\ call.windowWidth = W(768)
  /\ \E token \in Range(TokensOf(call.classNames)) :
       TierIndex(token) = 1 /\ Stripped(token) \in Range(locals.classNames)
  /\ \E token \in Range(TokensOf(call.classNames)) :
       TierIndex(token) = 3 /\ Stripped(token) \notin Range(locals.classNames)

(* --------------------------------- C4 ---------------------------------- *)
BlueRed == <<<<"b", "g", "-", "b", "l", "u", "e", "-", "5", "0", "0">>, <<"b", "g", "-", "r", "e", "d", "-", "5", "0", "0">>>>

RedBlue == <<<<"b", "g", "-", "r", "e", "d", "-", "5", "0", "0">>, <<"b", "g", "-", "b", "l", "u", "e", "-", "5", "0", "0">>>>

\* C4 as stated: "bg-red-500 bg-blue-500" and "bg-blue-500 bg-red-500" give
\* the same result, whose background color is that of the bg-blue-500 fragment.
C4_BlueWins ==
  (Returned /\ call.op = "tailwind" /\ call.classNames \in {join(BlueRed), join(RedBlue)}) =>
    /\ result.ref = <<join(BlueRed), 1>>
    /\ get(result.value, backgroundColor) = get(useVariables(tailwindStyles[<<"b", "g", "-", "b", "l", "u", "e", "-", "5", "0", "0">>]), backgroundColor)

\* C4 as amended: for two untagged tokens of the table that both set the
\* background color, either input order gives the same result, whose
\* background color is that of the token that sorts later (bg-red-500 for
\* bg-red-500 and bg-blue-500).
C4_LaterInSortOrderWins ==
  (Returned /\ call.op = "tailwind") =>
    \A a, b \in DOMAIN tailwindStyles :
      (/\ StrLess(a, b)
       /\ Untagged(a) /\ Untagged(b)
       /\ backgroundColor \in DOMAIN tailwindStyles[a]
       /\ backgroundColor \in DOMAIN tailwindStyles[b]
       /\ TokensOf(call.classNames) \in {<<a, b>>, <<b, a>>})
      => /\ result.ref = <<join(<<a, b>>), 1>>
         /\ get(result.value, backgroundColor) = get(useVariables(tailwindStyles[b]), backgroundColor)

\* the call with the red token first, where input order and sort order differ
C4_Witness ==
  /\ Returned
  /\ call.classNames = join(RedBlue)
  /\ locals.classNames = BlueRed
  /\ get(result.value, backgroundColor) = Str(<<"r", "g", "b", "a", "(", "2", "4", "5", ",", " ", "1", "0", "1", ",", " ", "1", "0", "1", ",", " ", "1", ")">>)

(* --------------------------------- C5 ---------------------------------- *)
\* C5: a token that is absent from the table never makes the call throw: when
\* neither the width nor the font size is missing, the call returns the merge
\* of the supported tokens and stores it in the cache.
C5_AbsentTokenNeverThrows ==
  (/\ Called
   /\ \E token \in Range(locals.classNames) : token \notin DOMAIN tailwindStyles
   /\ ~Threw("NoWindowWidth")
   /\ ~Threw("FontSizeRequired"))
  => /\ result.outcome = "return"
     /\ locals.key \in DOMAIN cache
     /\ cache[locals.key].ref = result.ref

(* --------------------------------- C6 ---------------------------------- *)
\* the string holds tracking-<letters>, at the start of a token or inside one
HoldsTracking(s) ==
  \E i \in 1..Len(s) : startsWithAt(s, <<"t", "r", "a", "c", "k", "i", "n", "g", "-">>, i) /\ i + 9 <= Len(s) /\ s[i + 9] \in Lower

\* the string holds text-<size>, at the start of a token or inside one
HoldsTextSize(s) == \E i \in 1..Len(s) : \E size \in TextSizeTokens : startsWithAt(s, size, i)

C7_ColorWithOpacity ==
  \A c, o \in ColorTerms :
    LET color == <<"b", "g", "-">> \o c
        opacity == <<"b", "g", "-">> \o o
    IN (/\ call.op = "getColor"
        /\ call.name = c \o <<" ">> \o o
        /\ DOMAIN tailwindStyles[color] = {bgOpacity, backgroundColor}
        /\ includes(tailwindStyles[color][backgroundColor].v, <<"v", "a", "r", "(", "-", "-", "b", "g", "-", "o", "p", "a", "c", "i", "t", "y", ")">>)
        /\ DOMAIN tailwindStyles[opacity] = {bgOpacity})
       => /\ result.outcome = "return"
          /\ result.color = Str(replaceVar(tailwindStyles[color][backgroundColor].v, tailwindStyles[opacity]))
          /\ \A key \in DOMAIN result.value : ~startsWith(key, <<"-", "-">>)

(* --------------------------------- C8 ---------------------------------- *)
\* C8: in the token sequence consumed by the merge step the buckets come in
\* the order untagged, sm, md, lg, xl; within a bucket every leading-* token
\* comes after every other token and both groups are in lexicographic order.
\* Hence an untagged leading-* token of the table decides the lineHeight
\* against an untagged text-<size> token of the table, in either input order.
C8_LeadingAfterText ==
  Called =>
    /\ Len(locals.classNames) = Len(locals.filtered)
    /\ \A i \in DOMAIN locals.filtered : locals.classNames[i] = Stripped(locals.filtered[i])
    /\ \A i, j \in DOMAIN locals.filtered :
         i < j =>
           LET a == locals.filtered[i]
               b == locals.filtered[j]
           IN /\ TierIndex(a) <= TierIndex(b)
              /\ TierIndex(a) = TierIndex(b) =>
                   /\ ~(IsLeading(a) /\ ~IsLeading(b))
                   /\ (IsLeading(a) <=> IsLeading(b)) => ~StrLess(b, a)
    /\ \A l \in DOMAIN tailwindStyles :
         (/\ Returned
          /\ IsLeading(l) /\ Untagged(l)
          /\ l \in Range(TokensOf(call.classNames))
          /\ \A token \in Range(TokensOf(call.classNames)) :
               Untagged(token) /\ (IsLeading(token) => token = l)
          /\ \E token \in Range(TokensOf(call.classNames)) :
               token \in TextSizeTokens /\ token \in DOMAIN tailwindStyles)
         => get(result.value, lineHeight) = tailwindStyles[l][lineHeight]

\* leading tokens given before text tokens, in the untagged and the md: bucket
C8_Witness ==
  /\ Returned
  /\ TokensOf(call.classNames) = <<<<"m", "d", ":", "l", "e", "a", "d", "i", "n", "g", "-", "8">>, <<"m", "d", ":", "t", "e", "x", "t", "-", "x", "l">>, <<"l", "e", "a", "d", "i", "n", "g", "-", "6">>>>
  /\ locals.filtered = <<<<"l", "e", "a", "d", "i", "n", "g", "-", "6">>, <<"m", "d", ":", "t", "e", "x", "t", "-", "x", "l">>, <<"m", "d", ":", "l", "e", "a", "d", "i", "n", "g", "-", "8">>>>
  /\ get(result.value, lineHeight) = W(32)

(* --------------------------------- C9 ---------------------------------- *)
Keywords == {<<"o", "l", "d", "s", "t", "y", "l", "e", "-", "n", "u", "m", "s">>, <<"l", "i", "n", "i", "n", "g", "-", "n", "u", "m", "s">>, <<"t", "a", "b", "u", "l", "a", "r", "-", "n", "u", "m", "s">>, <<"p", "r", "o", "p", "o", "r", "t", "i", "o", "n", "a", "l", "-", "n", "u", "m", "s">>}

\* the positions of the string at which a font-variant keyword occurs
KeywordPositions(s) == {i \in 1..Len(s) : \E k \in Keywords : startsWithAt(s, k, i)}

\* the keywords of the string in their order of occurrence
KeywordsInOrder(s) ==
  LET at(n) == CHOOSE i \in KeywordPositions(s) :
                 Cardinality({j \in KeywordPositions(s) : j < i}) = n - 1
  IN [n \in 1..Cardinality(KeywordPositions(s)) |->
        CHOOSE k \in Keywords : startsWithAt(s, k, at(n))]

\* the keyword at position i of the string is a whole token
WholeToken(s, i) ==
  /\ i = 1 \/ s[i - 1] = " "
  /\ \E k \in Keywords :
       startsWithAt(s, k, i) /\ (i + Len(k) > Len(s) \/ s[i + Len(k)] = " ")

C10_LetterSpacingUsesWinningFontSize ==
  \A tracking \in DOMAIN tailwindStyles :
    (/\ Returned
     /\ letterSpacing \in DOMAIN result.value
     /\ IsTracking(tracking)
     /\ \A token \in Range(locals.classNames) : IsTracking(token) => token = tracking
     /\ Count(tracking, locals.classNames) = 1
     /\ \E token \in Range(locals.classNames) : token \in TextSizeTokens)
    => /\ fontSize \in DOMAIN result.value
       /\ result.value[letterSpacing] =
            times(parseFloat(tailwindStyles[tracking][letterSpacing]), result.value[fontSize])
====
